---- MODULE Spec2Model ----
(***************************************************************************)
(* Web Storage Benchmark: the run orchestrator (runAllBenchmarks), the     *)
(* measurement engine (runBenchmark, runOnce, purgeAll) and the storage    *)
(* adapters of src/src/App.tsx.                                            *)
(*                                                                         *)
(* Times are kept in sixths of a millisecond (Scale), so that the mean     *)
(* over 1, 2 or 3 trials and the placeholder 0.5 ms are exact integers.    *)
(* A JavaScript continuation runs from the completion of one awaited       *)
(* operation to the start of the next; the actions below are those         *)
(* completions and starts.                                                 *)
(***************************************************************************)
EXTENDS Integers, Sequences, FiniteSets, TLC

VARIABLES
    pc,          \* where the single async chain stands
    caller,      \* who awaits runBenchmark: "runAllBenchmarks" or "direct"
    isRunning,   \* App state isRunning
    results,     \* App state results (the published sequence)
    allResults,  \* runAllBenchmarks' local allResults
    si, ai,      \* runAllBenchmarks' position in suites / adapters
    rbAdapter,   \* runBenchmark's adapter argument (its name)
    rbSuite,     \* runBenchmark's suite argument
    rbResults,   \* runBenchmark's local results
    pi,          \* runBenchmark's position in suite.payloads
    writeTime, readTime, runs, targetRuns,   \* runBenchmark's locals
    onceWrite,   \* runOnce's local writeTime
    inflight,    \* the adapter operations (and timers) started and not yet completed
    thrown,      \* the value thrown into the current catch
    store,       \* per adapter: the entries of its backend (key -> size)
    purgeIdx,    \* purgeAll's position in adapters
    returned,    \* settlement of the last direct runBenchmark call
    opLog,       \* history: operations issued for the current payload
    trialLog,    \* history: durations of the completed trials of the payload
    purgeLog,    \* history: adapters purgeAll called clear() on, with outcome
    faulted,     \* history: an operation of this runBenchmark call failed other than by capacity
    failedPairs, \* history: (suite, adapter) pairs of this run that hit a failure
    web,         \* the browser's storage: what the adapters' backends hold
    active,      \* the adapters whose methods are being called directly
    last,        \* the last direct adapter method call and its outcome
    ref          \* history: per adapter, what the calls that succeeded should have left

engineVars == <<pc, caller, isRunning, results, allResults, si, ai, rbAdapter, rbSuite,
                rbResults, pi, writeTime, readTime, runs, targetRuns, onceWrite,
                inflight, thrown, store, purgeIdx, returned, opLog, trialLog,
                purgeLog, faulted, failedPairs>>
webVars == <<web, active, last, ref>>
vars == <<engineVars, webVars>>

-----------------------------------------------------------------------------
(* Bounds *)

MaxPayloads == 2

(* Units and program constants *)

Scale == 2 * 3
Ms(x) == x * Scale

FastThresholdMs == 10
MediumThresholdMs == 50
FastRuns == 3
MediumRuns == 2
PauseMs == 50

MB == 1024 * 1024

-----------------------------------------------------------------------------
(* The adapter registry and the suite catalog *)

AdapterRegistry ==
    << "localStorage", "sessionStorage", "IndexedDB", "Cache Storage", "Cookies",
       "Dexie.js", "store.js", "PouchDB", "localForage", "OPFS" >>

\* The adapters the engine is driven with here: one synchronous, one asynchronous.
adapters == << AdapterRegistry[1], AdapterRegistry[3] >>

AdapterNames == { adapters[i] : i \in 1..Len(adapters) }

Payload(l, s) == [label |-> l, size |-> s]

Catalog ==
    << [name |-> "Save a preference (128 B)", payloads |-> << Payload("128 B", 128) >>],
       [name |-> "Persist UI state (1 KB)", payloads |-> << Payload("1 KB", 1024) >>],
       [name |-> "Persist UI state (10 KB)", payloads |-> << Payload("10 KB", 10 * 1024) >>],
       [name |-> "Offline dataset (100 KB)", payloads |-> << Payload("100 KB", 100 * 1024) >>],
       [name |-> "Offline dataset (1 MB)", payloads |-> << Payload("1 MB", MB) >>],
       [name |-> "Offline dataset (2 MB)", payloads |-> << Payload("2 MB", 2 * MB) >>],
       [name |-> "Offline dataset (4 MB)", payloads |-> << Payload("4 MB", 4 * MB) >>],
       [name |-> "Offline dataset (8 MB)", payloads |-> << Payload("8 MB", 8 * MB) >>],
       [name |-> "Offline dataset (16 MB)", payloads |-> << Payload("16 MB", 16 * MB) >>],
       [name |-> "Large dataset (32 MB)", payloads |-> << Payload("32 MB", 32 * MB) >>],
       [name |-> "Large dataset (64 MB)", payloads |-> << Payload("64 MB", 64 * MB) >>],
       [name |-> "Large dataset (100 MB)", payloads |-> << Payload("100 MB", 100 * MB) >> ] >>

\* The suites runAllBenchmarks iterates here: the catalog's 4 MB and 8 MB suites,
\* in catalog order, between which localStorage's quota is crossed.
suites == << Catalog[7], Catalog[8] >>

\* Suites a direct caller of runBenchmark passes: any sequence of up to MaxPayloads
\* payloads drawn from the catalog's 4 MB and 8 MB payloads.
PayloadPool == { Catalog[7].payloads[1], Catalog[8].payloads[1] }

RECURSIVE SeqsUpTo(_, _)
SeqsUpTo(S, n) ==
    IF n = 0 THEN { << >> }
    ELSE LET shorter == SeqsUpTo(S, n - 1)
         IN  shorter \cup { Append(q, x) : q \in shorter, x \in S }

CallerSuites == { [name |-> "suite", payloads |-> p] : p \in SeqsUpTo(PayloadPool, MaxPayloads) }

\* `bench_${payload.label}`
BenchKey(label) == << "bench_", label >>

\* generatePayload: "a".repeat(size), a string of exactly size characters, kept
\* as its length.
generatePayload(size) == size

-----------------------------------------------------------------------------
(* The environment: durations, thrown values, backend capacity *)

\* performance.now() is monotonic: a measured duration is >= 0.  In whole ms.
WriteDurations == { 8, 9, 49 }
ReadDurations == { 1 }
\* How long a clear() takes, in ms
ClearDurations == { 20 }

\* A thrown or rejected JavaScript value, as far as `e.message` can tell them
\* apart: null/undefined, or a value whose message property is a string or
\* missing.
ThrownValue(n, h, m) == [nullish |-> n, hasMessage |-> h, message |-> m]
QuotaError == ThrownValue(FALSE, TRUE, "QuotaExceededError")
TypeErrorValue == ThrownValue(FALSE, TRUE, "Cannot read properties of null")
Thrown ==
    { ThrownValue(FALSE, TRUE, "backend error"),   \* an Error with a message
      ThrownValue(FALSE, TRUE, ""),                \* an Error with an empty message
      ThrownValue(FALSE, FALSE, ""),               \* a string, or an object without message
      ThrownValue(TRUE, FALSE, "") }               \* null or undefined
NoThrow == ThrownValue(FALSE, FALSE, "<none>")

\* The quota of a backend, in characters over all its entries.  localStorage
\* has the usual 5 MiB; IndexedDB takes every catalog payload.
Capacity(a) == IF a = "localStorage" THEN 5 * MB ELSE 1024 * MB

RECURSIVE Usage(_)
Usage(entries) ==
    IF DOMAIN entries = {} THEN 0
    ELSE LET k == CHOOSE x \in DOMAIN entries : TRUE
         IN  entries[k] + Usage([y \in DOMAIN entries \ {k} |-> entries[y]])

NoEntries == [k \in {} |-> 0]
\* What a run that was cut short before purgeAll (the page closed) left behind:
\* the 2 MB payload of the catalog's sixth suite.
Leftover == (BenchKey(Catalog[6].payloads[1].label) :> generatePayload(Catalog[6].payloads[1].size))
Put(entries, k, v) == [x \in DOMAIN entries \cup {k} |-> IF x = k THEN v ELSE entries[x]]
Without(entries, k) == [x \in DOMAIN entries \ {k} |-> entries[x]]

Fits(a, entries, k, size) == Usage(Without(entries, k)) + size <= Capacity(a)

Op(a, o) == [adapter |-> a, op |-> o]
\* The operations in flight once o has completed
RECURSIVE Settle(_, _)
Settle(fl, o) ==
    IF fl = << >> THEN << >>
    ELSE IF Head(fl) = o THEN Tail(fl)
    ELSE << Head(fl) >> \o Settle(Tail(fl), o)
\* ... and then o2 has been started
Then(fl, o, o2) == Append(Settle(fl, o), o2)
\* The operation awaited at a position of runOnce
OpAt(at) == CASE at = "await_clear" -> "clear"
              [] at = "await_write" -> "write"
              [] at = "await_read"  -> "read"

-----------------------------------------------------------------------------
(* BenchmarkResult *)

NoError == << >>

OkResult(a, s, p, w, r, b) ==
    [adapterName |-> a, suiteName |-> s, payloadSize |-> p,
     writeTime |-> w, readTime |-> r, blockingTime |-> b, error |-> NoError]

FallbackMessage == "Quota exceeded or unknown error"

\* e.message || "Quota exceeded or unknown error", for a non-nullish e
ErrorMessage(e) == IF e.hasMessage /\ e.message # "" THEN e.message ELSE FallbackMessage

\* Mutant: the error result carries the timings accumulated before the failure.
ErrorResult_KeepsTimes(a, s, p, e) ==
    [adapterName |-> a, suiteName |-> s, payloadSize |-> p,
     writeTime |-> writeTime, readTime |-> readTime, blockingTime |-> 0,
     error |-> << ErrorMessage(e) >>]

ErrorResult(a, s, p, e) ==
    [adapterName |-> a, suiteName |-> s, payloadSize |-> p,
     writeTime |-> 0, readTime |-> 0, blockingTime |-> 0, error |-> << ErrorMessage(e) >>]

isSync(a) == a = "localStorage" \/ a = "sessionStorage" \/ a = "Cookies"

BlockingTime(a, w, r) == IF isSync(a) THEN w + r ELSE Ms(1) \div 2

\* Mutant: the thresholds compared with <= instead of <.
TargetRuns_Inclusive(totalTime) ==
    IF totalTime <= Ms(FastThresholdMs) THEN FastRuns
    ELSE IF totalTime <= Ms(MediumThresholdMs) THEN MediumRuns
    ELSE 1

\* if (totalTime < 10) targetRuns = 3; else if (totalTime < 50) targetRuns = 2;
TargetRuns(totalTime) ==
    IF totalTime < Ms(FastThresholdMs) THEN FastRuns
    ELSE IF totalTime < Ms(MediumThresholdMs) THEN MediumRuns
    ELSE 1

\* writeTime /= runs
Mean(total, n) == total \div n

CurPayload == rbSuite.payloads[pi]
CurKey == BenchKey(CurPayload.label)

-----------------------------------------------------------------------------
(* Strings, as sequences of one-character strings *)

Letters ==
    { "a","b","c","d","e","f","g","h","i","j","k","l","m","n","o","p","q","r","s","t",
      "u","v","w","x","y","z","A","B","C","D","E","F","G","H","I","J","K","L","M","N",
      "O","P","Q","R","S","T","U","V","W","X","Y","Z" }
Digits == { "0","1","2","3","4","5","6","7","8","9" }

\* The characters encodeURIComponent leaves alone.
UriUnreserved == Letters \cup Digits \cup { "-", "_", ".", "!", "~", "*", "'", "(", ")" }

\* The two hex digits of the other (ASCII) characters of the model.
HexCode(c) ==
    CASE c = " "  -> << "2", "0" >>
      [] c = "\"" -> << "2", "2" >>
      [] c = "%"  -> << "2", "5" >>
      [] c = ";"  -> << "3", "B" >>
      [] c = "="  -> << "3", "D" >>
      [] c = "\\" -> << "5", "C" >>
Encodable == { " ", "\"", "%", ";", "=", "\\" }

RECURSIVE encodeURIComponent(_)
encodeURIComponent(str) ==
    IF str = << >> THEN << >>
    ELSE (IF Head(str) \in UriUnreserved THEN << Head(str) >>
          ELSE << "%" >> \o HexCode(Head(str)))
         \o encodeURIComponent(Tail(str))

\* decodeURIComponent: [ok, value]; ok is FALSE for a malformed escape (URIError).
RECURSIVE decodeURIComponent(_)
decodeURIComponent(str) ==
    IF str = << >> THEN [ok |-> TRUE, value |-> << >>]
    ELSE IF Head(str) # "%"
         THEN LET rest == decodeURIComponent(Tail(str))
              IN  [ok |-> rest.ok, value |-> << Head(str) >> \o rest.value]
    ELSE IF Len(str) < 3 \/ ~\E c \in Encodable : HexCode(c) = SubSeq(str, 2, 3)
         THEN [ok |-> FALSE, value |-> << >>]
    ELSE LET c    == CHOOSE x \in Encodable : HexCode(x) = SubSeq(str, 2, 3)
             rest == decodeURIComponent(SubSeq(str, 4, Len(str)))
         IN  [ok |-> rest.ok, value |-> << c >> \o rest.value]

RECURSIVE JsonEscape(_)
JsonEscape(str) ==
    IF str = << >> THEN << >>
    ELSE (IF Head(str) \in { "\"", "\\" } THEN << "\\", Head(str) >> ELSE << Head(str) >>)
         \o JsonEscape(Tail(str))

\* JSON.stringify of a string
JSONstringify(str) == << "\"" >> \o JsonEscape(str) \o << "\"" >>

\* The inside of a JSON string literal: [ok, value]; a bare quote or a dangling
\* backslash is a syntax error.
RECURSIVE JsonUnescape(_)
JsonUnescape(str) ==
    IF str = << >> THEN [ok |-> TRUE, value |-> << >>]
    ELSE IF Head(str) = "\"" THEN [ok |-> FALSE, value |-> << >>]
    ELSE IF Head(str) = "\\"
         THEN IF Len(str) < 2 \/ str[2] \notin { "\"", "\\" }
              THEN [ok |-> FALSE, value |-> << >>]
              ELSE LET rest == JsonUnescape(SubSeq(str, 3, Len(str)))
                   IN  [ok |-> rest.ok, value |-> << str[2] >> \o rest.value]
    ELSE LET rest == JsonUnescape(Tail(str))
         IN  [ok |-> rest.ok, value |-> << Head(str) >> \o rest.value]

\* JSON.parse of a text that is a string literal; any other text of the model's
\* characters is a syntax error.
JSONparse(text) ==
    IF Len(text) >= 2 /\ Head(text) = "\"" /\ text[Len(text)] = "\""
    THEN JsonUnescape(SubSeq(text, 2, Len(text) - 1))
    ELSE [ok |-> FALSE, value |-> << >>]

IsPrefix(p, str) == Len(p) <= Len(str) /\ SubSeq(str, 1, Len(p)) = p

\* `bench_${payload.label}` as text, for the label "128 B"
BenchKeyText(label) == << "b", "e", "n", "c", "h", "_" >> \o label
EngineKeys == { BenchKeyText(<< "1", "2", "8", " ", "B" >>) }
Keys == EngineKeys \cup { << "k" >> }
Values == { << >>, << "\"", "%" >> }

\* A value read: null, or a string
Absent == [present |-> FALSE, value |-> << >>]
Some(v) == [present |-> TRUE, value |-> v]
Lookup(entries, k) == IF k \in DOMAIN entries THEN Some(entries[k]) ELSE Absent
\* x || null, for a string or undefined x: the empty string is falsy
OrNull(x) == IF x.present /\ x.value # << >> THEN x ELSE Absent

-----------------------------------------------------------------------------
(* The browser's storage, and the adapters' methods on it *)

AdapterSet == { AdapterRegistry[i] : i \in 1..Len(AdapterRegistry) }

IdbNames == { "benchmark_db", "dexie_benchmark", "localforage_benchmark" }

\* Nothing stored anywhere; supported: whether navigator.storage.getDirectory exists.
EmptyWeb(supported) ==
    [ localStorage   |-> NoEntries,
      sessionStorage |-> NoEntries,
      indexedDB      |-> [n \in IdbNames |-> NoEntries],
      caches         |-> [n \in {} |-> NoEntries],
      cookie         |-> << >>,
      pouch          |-> NoEntries,
      opfs           |-> NoEntries,
      opfsSupported  |-> supported ]

\* What a method call did: the storage after it, and a return value or an error.
Return(w, r) == [web |-> w, ok |-> TRUE, ret |-> r, err |-> ""]
Throw(w, msg) == [web |-> w, ok |-> FALSE, ret |-> Absent, err |-> msg]

LocalStorageAdapter_write(w, key, value) ==
    Return([w EXCEPT !.localStorage = Put(@, key, value)], Absent)
LocalStorageAdapter_read(w, key) == Return(w, Lookup(w.localStorage, key))
LocalStorageAdapter_delete(w, key) ==
    Return([w EXCEPT !.localStorage = Without(@, key)], Absent)
LocalStorageAdapter_clear(w) == Return([w EXCEPT !.localStorage = NoEntries], Absent)

SessionStorageAdapter_write(w, key, value) ==
    Return([w EXCEPT !.sessionStorage = Put(@, key, value)], Absent)
SessionStorageAdapter_read(w, key) == Return(w, Lookup(w.sessionStorage, key))
SessionStorageAdapter_delete(w, key) ==
    Return([w EXCEPT !.sessionStorage = Without(@, key)], Absent)
SessionStorageAdapter_clear(w) == Return([w EXCEPT !.sessionStorage = NoEntries], Absent)

\* An object store of one IndexedDB database
IdbPut(w, db, key, value) == [w EXCEPT !.indexedDB[db] = Put(@, key, value)]
IdbDelete(w, db, key) == [w EXCEPT !.indexedDB[db] = Without(@, key)]
IdbClear(w, db) == [w EXCEPT !.indexedDB[db] = NoEntries]

IndexedDBAdapter_write(w, key, value) == Return(IdbPut(w, "benchmark_db", key, value), Absent)
IndexedDBAdapter_read(w, key) ==
    Return(w, OrNull(Lookup(w.indexedDB["benchmark_db"], key)))
IndexedDBAdapter_delete(w, key) == Return(IdbDelete(w, "benchmark_db", key), Absent)
IndexedDBAdapter_clear(w) == Return(IdbClear(w, "benchmark_db"), Absent)

\* caches.open creates the cache when it is missing
CacheOpen(w, name) ==
    IF name \in DOMAIN w.caches THEN w ELSE [w EXCEPT !.caches = Put(@, name, NoEntries)]
CacheStorageAdapter_write(w, key, value) ==
    Return([CacheOpen(w, "benchmark_cache") EXCEPT !.caches["benchmark_cache"] = Put(@, key, value)],
           Absent)
CacheStorageAdapter_read(w, key) ==
    LET o == CacheOpen(w, "benchmark_cache")
    IN  Return(o, Lookup(o.caches["benchmark_cache"], key))
CacheStorageAdapter_delete(w, key) ==
    Return([CacheOpen(w, "benchmark_cache") EXCEPT !.caches["benchmark_cache"] = Without(@, key)],
           Absent)
CacheStorageAdapter_clear(w) ==
    Return([w EXCEPT !.caches = Without(@, "benchmark_cache")], Absent)

\* The cookie jar is a sequence of [name, value], oldest first; both are kept as
\* the text that was assigned to document.cookie.
CookieSet(jar, name, value) ==
    IF \E i \in 1..Len(jar) : jar[i].name = name
    THEN [i \in 1..Len(jar) |-> IF jar[i].name = name THEN [name |-> name, value |-> value]
                                ELSE jar[i]]
    ELSE Append(jar, [name |-> name, value |-> value])
CookieExpire(jar, name) ==
    LET keep == { i \in 1..Len(jar) : jar[i].name # name }
        RECURSIVE Kept(_)
        Kept(i) == IF i > Len(jar) THEN << >>
                   ELSE (IF i \in keep THEN << jar[i] >> ELSE << >>) \o Kept(i + 1)
    IN  Kept(1)
\* document.cookie.split(';'), each piece without its leading blanks: "name=value"
\* per cookie, and one empty piece when there is no cookie.
CookiePieces(jar) ==
    IF jar = << >> THEN << << >> >>
    ELSE [i \in 1..Len(jar) |-> jar[i].name \o << "=" >> \o jar[i].value]
\* piece.split('=')[0]
RECURSIVE BeforeEquals(_)
BeforeEquals(piece) ==
    IF piece = << >> \/ Head(piece) = "=" THEN << >>
    ELSE << Head(piece) >> \o BeforeEquals(Tail(piece))

CookieAdapter_write(w, key, value) ==
    Return([w EXCEPT !.cookie = CookieSet(@, encodeURIComponent(key), encodeURIComponent(value))],
           Absent)
CookieAdapter_read(w, key) ==
    LET nameEQ == encodeURIComponent(key) \o << "=" >>
        ca     == CookiePieces(w.cookie)
        hits   == { i \in 1..Len(ca) : IsPrefix(nameEQ, ca[i]) }
    IN  IF hits = {} THEN Return(w, Absent)
        ELSE LET i == CHOOSE x \in hits : \A y \in hits : x <= y
                 d == decodeURIComponent(SubSeq(ca[i], Len(nameEQ) + 1, Len(ca[i])))
             IN  IF d.ok THEN Return(w, Some(d.value)) ELSE Throw(w, "URIError")
CookieAdapter_delete(w, key) ==
    Return([w EXCEPT !.cookie = CookieExpire(@, encodeURIComponent(key))], Absent)
CookieAdapter_clear(w) ==
    LET ca == CookiePieces(w.cookie)
        RECURSIVE Loop(_, _)
        Loop(x, i) == IF i > Len(ca) THEN x
                      ELSE Loop(CookieAdapter_delete(x, BeforeEquals(ca[i])).web, i + 1)
    IN  Return(Loop(w, 1), Absent)

DexieAdapter_write(w, key, value) == Return(IdbPut(w, "dexie_benchmark", key, value), Absent)
DexieAdapter_read(w, key) == Return(w, Lookup(w.indexedDB["dexie_benchmark"], key))
DexieAdapter_delete(w, key) == Return(IdbDelete(w, "dexie_benchmark", key), Absent)
DexieAdapter_clear(w) == Return(IdbClear(w, "dexie_benchmark"), Absent)

\* store.get: nothing for a missing or empty item, the parsed item, or the item
\* as it is when it does not parse.
StoreGet(w, key) ==
    LET data == Lookup(w.localStorage, key)
    IN  IF ~data.present \/ data.value = << >> THEN Absent
        ELSE LET val == JSONparse(data.value)
             IN  IF val.ok THEN Some(val.value) ELSE data
StoreJsAdapter_write(w, key, value) ==
    Return([w EXCEPT !.localStorage = Put(@, key, JSONstringify(value))], Absent)
StoreJsAdapter_read(w, key) == Return(w, OrNull(StoreGet(w, key)))
StoreJsAdapter_delete(w, key) ==
    Return([w EXCEPT !.localStorage = Without(@, key)], Absent)
StoreJsAdapter_clear(w) == Return([w EXCEPT !.localStorage = NoEntries], Absent)

\* pouch_benchmark: id -> [rev, deleted, value]; a deleted document stays as a
\* tombstone that carries its revision.
MaxRev == 3
PouchLive(w, id) == id \in DOMAIN w.pouch /\ ~w.pouch[id].deleted
PouchRev(w, id) == IF id \in DOMAIN w.pouch THEN w.pouch[id].rev ELSE 0
\* db.put / db.remove of a document that carries revision rev (0: no _rev field)
PouchPut(w, id, rev, deleted, value) ==
    IF PouchLive(w, id) /\ rev # w.pouch[id].rev THEN Throw(w, "conflict")
    ELSE Return([w EXCEPT !.pouch = Put(@, id, [rev |-> PouchRev(w, id) + 1,
                                                deleted |-> deleted,
                                                value |-> value])], Absent)
\* Mutant: the document is put without the revision having been read first.
PouchDBAdapter_write_NoPreRead(w, key, value) == PouchPut(w, key, 0, FALSE, value)
PouchDBAdapter_write(w, key, value) ==
    IF PouchLive(w, key) THEN PouchPut(w, key, w.pouch[key].rev, FALSE, value)
    ELSE PouchPut(w, key, 0, FALSE, value)
PouchDBAdapter_read(w, key) ==
    IF PouchLive(w, key) THEN Return(w, Some(w.pouch[key].value)) ELSE Return(w, Absent)
PouchDBAdapter_delete(w, key) ==
    IF PouchLive(w, key) THEN PouchPut(w, key, w.pouch[key].rev, TRUE, << >>)
    ELSE Return(w, Absent)
PouchDBAdapter_clear(w) ==
    Return([w EXCEPT !.pouch =
                [id \in DOMAIN @ |-> IF @[id].deleted THEN @[id]
                                     ELSE [rev |-> @[id].rev + 1, deleted |-> TRUE,
                                           value |-> << >>]]], Absent)

LocalForageAdapter_write(w, key, value) ==
    Return(IdbPut(w, "localforage_benchmark", key, value), Absent)
LocalForageAdapter_read(w, key) == Return(w, Lookup(w.indexedDB["localforage_benchmark"], key))
LocalForageAdapter_delete(w, key) == Return(IdbDelete(w, "localforage_benchmark", key), Absent)
LocalForageAdapter_clear(w) == Return(IdbClear(w, "localforage_benchmark"), Absent)

NotSupported == "OPFS not supported"
\* getRoot: [ok, err]
getRoot(w) == IF w.opfsSupported THEN [ok |-> TRUE, err |-> ""]
              ELSE [ok |-> FALSE, err |-> NotSupported]
OPFSAdapter_write(w, key, value) ==
    IF ~getRoot(w).ok THEN Throw(w, getRoot(w).err)
    ELSE Return([w EXCEPT !.opfs = Put(@, key, value)], Absent)
OPFSAdapter_read(w, key) ==
    IF ~getRoot(w).ok \/ key \notin DOMAIN w.opfs THEN Return(w, Absent)
    ELSE Return(w, Some(w.opfs[key]))
OPFSAdapter_delete(w, key) ==
    IF ~getRoot(w).ok THEN Throw(w, getRoot(w).err)
    ELSE IF key \notin DOMAIN w.opfs THEN Throw(w, "NotFoundError")
    ELSE Return([w EXCEPT !.opfs = Without(@, key)], Absent)
OPFSAdapter_clear(w) ==
    IF ~getRoot(w).ok THEN Throw(w, getRoot(w).err)
    ELSE Return([w EXCEPT !.opfs = NoEntries], Absent)

\* adapter.write / read / delete / clear, for the registry's adapter called a
AdapterWrite(a, w, key, value) ==
    CASE a = "localStorage"   -> LocalStorageAdapter_write(w, key, value)
      [] a = "sessionStorage" -> SessionStorageAdapter_write(w, key, value)
      [] a = "IndexedDB"      -> IndexedDBAdapter_write(w, key, value)
      [] a = "Cache Storage"  -> CacheStorageAdapter_write(w, key, value)
      [] a = "Cookies"        -> CookieAdapter_write(w, key, value)
      [] a = "Dexie.js"       -> DexieAdapter_write(w, key, value)
      [] a = "store.js"       -> StoreJsAdapter_write(w, key, value)
      [] a = "PouchDB"        -> PouchDBAdapter_write(w, key, value)
      [] a = "localForage"    -> LocalForageAdapter_write(w, key, value)
      [] a = "OPFS"           -> OPFSAdapter_write(w, key, value)
AdapterRead(a, w, key) ==
    CASE a = "localStorage"   -> LocalStorageAdapter_read(w, key)
      [] a = "sessionStorage" -> SessionStorageAdapter_read(w, key)
      [] a = "IndexedDB"      -> IndexedDBAdapter_read(w, key)
      [] a = "Cache Storage"  -> CacheStorageAdapter_read(w, key)
      [] a = "Cookies"        -> CookieAdapter_read(w, key)
      [] a = "Dexie.js"       -> DexieAdapter_read(w, key)
      [] a = "store.js"       -> StoreJsAdapter_read(w, key)
      [] a = "PouchDB"        -> PouchDBAdapter_read(w, key)
      [] a = "localForage"    -> LocalForageAdapter_read(w, key)
      [] a = "OPFS"           -> OPFSAdapter_read(w, key)
AdapterDelete(a, w, key) ==
    CASE a = "localStorage"   -> LocalStorageAdapter_delete(w, key)
      [] a = "sessionStorage" -> SessionStorageAdapter_delete(w, key)
      [] a = "IndexedDB"      -> IndexedDBAdapter_delete(w, key)
      [] a = "Cache Storage"  -> CacheStorageAdapter_delete(w, key)
      [] a = "Cookies"        -> CookieAdapter_delete(w, key)
      [] a = "Dexie.js"       -> DexieAdapter_delete(w, key)
      [] a = "store.js"       -> StoreJsAdapter_delete(w, key)
      [] a = "PouchDB"        -> PouchDBAdapter_delete(w, key)
      [] a = "localForage"    -> LocalForageAdapter_delete(w, key)
      [] a = "OPFS"           -> OPFSAdapter_delete(w, key)
AdapterClear(a, w) ==
    CASE a = "localStorage"   -> LocalStorageAdapter_clear(w)
      [] a = "sessionStorage" -> SessionStorageAdapter_clear(w)
      [] a = "IndexedDB"      -> IndexedDBAdapter_clear(w)
      [] a = "Cache Storage"  -> CacheStorageAdapter_clear(w)
      [] a = "Cookies"        -> CookieAdapter_clear(w)
      [] a = "Dexie.js"       -> DexieAdapter_clear(w)
      [] a = "store.js"       -> StoreJsAdapter_clear(w)
      [] a = "PouchDB"        -> PouchDBAdapter_clear(w)
      [] a = "localForage"    -> LocalForageAdapter_clear(w)
      [] a = "OPFS"           -> OPFSAdapter_clear(w)

NoCall == [adapter |-> "", op |-> "none", key |-> << >>, value |-> << >>,
           ok |-> TRUE, ret |-> Absent, err |-> "", held |-> {}]
\* A call: held is the set of keys stored for the adapter when it was made.
Call(a, o, k, v, out, h) ==
    [adapter |-> a, op |-> o, key |-> k, value |-> v,
     ok |-> out.ok, ret |-> out.ret, err |-> out.err, held |-> h]

-----------------------------------------------------------------------------
\* No benchmark is running; the engine-level backends hold entries.
EngineAtRest(entries) ==
    /\ pc = "idle"
    /\ caller = "none"
    /\ isRunning = FALSE
    /\ results = << >>
    /\ allResults = << >>
    /\ si = 1 /\ ai = 1
    /\ rbAdapter = adapters[1]
    /\ rbSuite = Catalog[1]
    /\ rbResults = << >>
    /\ pi = 1
    /\ writeTime = 0 /\ readTime = 0 /\ runs = 0 /\ targetRuns = 0
    /\ onceWrite = 0
    /\ inflight = << >>
    /\ thrown = NoThrow
    /\ store = entries
    /\ purgeIdx = 1
    /\ returned = [status |-> "none", value |-> << >>]
    /\ opLog = << >>
    /\ trialLog = << >>
    /\ purgeLog = << >>
    /\ faulted = FALSE
    /\ failedPairs = {}

Init ==
    /\ \E entries \in [AdapterNames -> {NoEntries, Leftover}] : EngineAtRest(entries)
    /\ web = EmptyWeb(TRUE)
    /\ active = {}
    /\ last = NoCall
    /\ ref = [a \in AdapterSet |-> NoEntries]

orchVars == <<isRunning, results, allResults, si, ai, purgeIdx, purgeLog>>
rbArgs == <<rbAdapter, rbSuite>>
rbLocals == <<writeTime, readTime, runs, targetRuns>>

histVars == <<opLog, trialLog, faulted, failedPairs>>

\* An operation issued; took is set when it completes.
LogOp(o, k, x) == [op |-> o, key |-> k, arg |-> x, took |-> 0]
\* The operation issued last has completed after t.
Took(log, t) == [log EXCEPT ![Len(log)].took = t]

\* The pair being measured hit a failure of an adapter operation.
NoteFailure ==
    failedPairs' = IF caller = "runAllBenchmarks"
                   THEN failedPairs \cup { << rbSuite.name, rbAdapter >> }
                   ELSE failedPairs

-----------------------------------------------------------------------------
(* runBenchmark and runOnce *)

\* runBenchmark's frame ends: its locals are gone.
LocalsGone ==
    /\ rbResults' = << >> /\ pi' = 1
    /\ writeTime' = 0 /\ readTime' = 0 /\ runs' = 0 /\ targetRuns' = 0
    /\ onceWrite' = 0
    /\ opLog' = << >> /\ trialLog' = << >>

\* A direct call runBenchmark(a, S) of the exported function.
CallRunBenchmark(a, S) ==
    /\ pc = "idle" /\ returned.status = "none"
    /\ pc' = "rb_loop"
    /\ caller' = "direct"
    /\ rbAdapter' = a /\ rbSuite' = S
    /\ rbResults' = << >> /\ pi' = 1
    /\ returned' = [status |-> "pending", value |-> << >>]
    /\ faulted' = FALSE
    /\ thrown' = NoThrow
    /\ UNCHANGED <<webVars, orchVars, rbLocals, onceWrite, inflight, store, opLog, trialLog,
                   failedPairs>>

\* for (const payload of suite.payloads): generatePayload, the key, then the
\* first runOnce, which starts with adapter.clear().
RbBeginPayload ==
    /\ pc = "rb_loop" /\ pi <= Len(rbSuite.payloads)
    /\ pc' = "await_clear"
    /\ inflight' = Append(inflight, Op(rbAdapter, "clear"))
    /\ runs' = 0 /\ targetRuns' = 0 /\ writeTime' = 0 /\ readTime' = 0
    /\ onceWrite' = 0
    /\ opLog' = << LogOp("clear", << >>, 0) >>
    /\ trialLog' = << >>
    /\ thrown' = NoThrow
    /\ UNCHANGED <<webVars, caller, orchVars, rbArgs, rbResults, pi, store, returned,
                   faulted, failedPairs>>

\* Mutant: runOnce goes on to the write without the backend having been cleared.
OnceClearOk_NoClear ==
    /\ pc = "await_clear"
    /\ pc' = "await_write"
    /\ inflight' = Then(inflight, Op(rbAdapter, "clear"), Op(rbAdapter, "write"))
    /\ \E c \in ClearDurations :
         opLog' = Append(Took(opLog, Ms(c)),
                         LogOp("write", CurKey, generatePayload(CurPayload.size)))
    /\ UNCHANGED <<webVars, caller, orchVars, rbArgs, rbResults, pi, rbLocals, onceWrite, thrown,
                   store, returned, trialLog, faulted, failedPairs>>

\* await adapter.clear() resolves; runOnce takes writeStart and calls adapter.write.
OnceClearOk ==
    /\ pc = "await_clear"
    /\ store' = [store EXCEPT ![rbAdapter] = NoEntries]
    /\ pc' = "await_write"
    /\ inflight' = Then(inflight, Op(rbAdapter, "clear"), Op(rbAdapter, "write"))
    /\ \E c \in ClearDurations :
         opLog' = Append(Took(opLog, Ms(c)),
                         LogOp("write", CurKey, generatePayload(CurPayload.size)))
    /\ UNCHANGED <<webVars, caller, orchVars, rbArgs, rbResults, pi, rbLocals, onceWrite, thrown,
                   returned, trialLog, faulted, failedPairs>>

\* catch (e: any) { results.push({..., error: e.message || "..."}) } for an e
\* that has properties; the for loop goes on with the next payload.
CatchRecord(e) ==
    /\ rbResults' = Append(rbResults,
           ErrorResult(rbAdapter, rbSuite.name, CurPayload.label, e))
    /\ pi' = pi + 1
    /\ pc' = "rb_loop"
    /\ writeTime' = 0 /\ readTime' = 0 /\ runs' = 0 /\ targetRuns' = 0   \* the try block's locals
    /\ onceWrite' = 0
    /\ opLog' = << >> /\ trialLog' = << >>

\* The same catch for e = null or undefined: reading e.message throws a
\* TypeError inside the catch block, which leaves runBenchmark.
CatchThrows ==
    /\ pc' = "rb_threw"
    /\ LocalsGone

\* An awaited adapter operation rejects with e: control reaches runBenchmark's catch.
OpFails(at, e) ==
    /\ pc = at
    /\ thrown' = e
    /\ inflight' = Settle(inflight, Op(rbAdapter, OpAt(at)))
    /\ NoteFailure
    /\ IF e.nullish THEN CatchThrows ELSE CatchRecord(e)
    /\ UNCHANGED <<webVars, caller, orchVars, rbArgs, store, returned>>

OnceClearFail == \E e \in Thrown : OpFails("await_clear", e) /\ faulted' = TRUE

\* Mutant: writeStart is taken before the clear, so the clear is timed too.
OnceWriteOk_TimesClear ==
    /\ pc = "await_write"
    /\ Fits(rbAdapter, store[rbAdapter], CurKey, CurPayload.size)
    /\ \E d \in WriteDurations :
         /\ onceWrite' = opLog[Len(opLog) - 1].took + Ms(d)
         /\ opLog' = Append(Took(opLog, Ms(d)), LogOp("read", CurKey, 0))
    /\ store' = [store EXCEPT ![rbAdapter] = Put(@, CurKey, generatePayload(CurPayload.size))]
    /\ pc' = "await_read"
    /\ inflight' = Then(inflight, Op(rbAdapter, "write"), Op(rbAdapter, "read"))
    /\ UNCHANGED <<webVars, caller, orchVars, rbArgs, rbResults, pi, rbLocals, thrown, returned,
                   trialLog, faulted, failedPairs>>

\* await adapter.write(key, data) resolves after d ms; runOnce takes writeEnd and
\* readStart and calls adapter.read.
OnceWriteOk ==
    /\ pc = "await_write"
    /\ Fits(rbAdapter, store[rbAdapter], CurKey, CurPayload.size)
    /\ \E d \in WriteDurations :
         /\ onceWrite' = Ms(d)
         /\ opLog' = Append(Took(opLog, Ms(d)), LogOp("read", CurKey, 0))
    /\ store' = [store EXCEPT ![rbAdapter] = Put(@, CurKey, generatePayload(CurPayload.size))]
    /\ pc' = "await_read"
    /\ inflight' = Then(inflight, Op(rbAdapter, "write"), Op(rbAdapter, "read"))
    /\ UNCHANGED <<webVars, caller, orchVars, rbArgs, rbResults, pi, rbLocals, thrown, returned,
                   trialLog, faulted, failedPairs>>

\* The backend refuses a write that exceeds its quota.
OnceWriteQuota ==
    /\ pc = "await_write"
    /\ ~Fits(rbAdapter, store[rbAdapter], CurKey, CurPayload.size)
    /\ OpFails("await_write", QuotaError)
    /\ UNCHANGED faulted

OnceWriteFail == \E e \in Thrown : OpFails("await_write", e) /\ faulted' = TRUE

\* writeTime /= runs; readTime /= runs; blockingTime; results.push({...}); the
\* for loop goes on with the next payload.
PushResult(wSum, rSum, n) ==
    LET w == Mean(wSum, n)
        r == Mean(rSum, n)
    IN  /\ writeTime' = w /\ readTime' = r
        /\ rbResults' = Append(rbResults,
               OkResult(rbAdapter, rbSuite.name, CurPayload.label, w, r,
                        BlockingTime(rbAdapter, w, r)))
        /\ pi' = pi + 1
        /\ pc' = "rb_loop"
        /\ inflight' = Settle(inflight, Op(rbAdapter, "read"))
        /\ opLog' = << >>

\* while (runs < targetRuns) { await wait(50); ... }: the pause starts.
StartWait(wSum, rSum) ==
    /\ writeTime' = wSum /\ readTime' = rSum
    /\ pc' = "await_wait"
    /\ inflight' = Then(inflight, Op(rbAdapter, "read"), Op("", "wait"))
    /\ opLog' = Append(opLog, LogOp("wait", << >>, PauseMs))
    /\ UNCHANGED <<webVars, rbResults, pi>>

\* await adapter.read(key) resolves after d ms (its value is dropped); runOnce
\* returns {writeTime, readTime}.  The first trial sets writeTime, readTime,
\* runs = 1 and targetRuns; a repeat adds to them and runs++.  (runs = 0 here
\* stands for "the first runOnce has not returned yet".)
OnceReadOk ==
    /\ pc = "await_read"
    /\ \E d \in ReadDurations :
         LET r  == Ms(d)
             w1 == IF runs = 0 THEN onceWrite ELSE writeTime + onceWrite
             r1 == IF runs = 0 THEN r ELSE readTime + r
             t1 == IF runs = 0 THEN TargetRuns(onceWrite + r) ELSE targetRuns
         IN  /\ runs' = runs + 1
             /\ targetRuns' = t1
             /\ trialLog' = Append(trialLog, [w |-> onceWrite, r |-> r])
             /\ IF runs + 1 < t1 THEN StartWait(w1, r1) ELSE PushResult(w1, r1, runs + 1)
    /\ UNCHANGED <<webVars, caller, orchVars, rbArgs, onceWrite, thrown, store, returned, faulted,
                   failedPairs>>

OnceReadFail == \E e \in Thrown : OpFails("await_read", e) /\ faulted' = TRUE

\* await wait(50) resolves; the next runOnce starts with adapter.clear().
RbWaitDone ==
    /\ pc = "await_wait"
    /\ pc' = "await_clear"
    /\ inflight' = Then(inflight, Op("", "wait"), Op(rbAdapter, "clear"))
    /\ opLog' = Append(opLog, LogOp("clear", << >>, 0))
    /\ UNCHANGED <<webVars, caller, orchVars, rbArgs, rbResults, pi, rbLocals, onceWrite, thrown,
                   store, returned, trialLog, faulted, failedPairs>>

\* return results, to a direct caller
RbReturnDirect ==
    /\ pc = "rb_loop" /\ pi > Len(rbSuite.payloads) /\ caller = "direct"
    /\ returned' = [status |-> "fulfilled", value |-> rbResults]
    /\ pc' = "idle"
    /\ LocalsGone
    /\ UNCHANGED <<webVars, caller, orchVars, rbArgs, inflight, thrown, store, faulted, failedPairs>>

\* the promise of a direct call rejects
RbRejectDirect ==
    /\ pc = "rb_threw" /\ caller = "direct"
    /\ returned' = [status |-> "rejected", value |-> << >>]
    /\ pc' = "idle"
    /\ UNCHANGED <<webVars, caller, orchVars, rbArgs, rbResults, pi, rbLocals, onceWrite, inflight,
                   thrown, store, histVars>>

\* The direct caller is done with the settled promise.
CallerDone ==
    /\ pc = "idle" /\ returned.status \in {"fulfilled", "rejected"}
    /\ returned' = [status |-> "none", value |-> << >>]
    /\ UNCHANGED <<webVars, pc, caller, orchVars, rbArgs, rbResults, pi, rbLocals, onceWrite,
                   inflight, thrown, store, histVars>>

EngineStep ==
    \/ RbBeginPayload
    \/ OnceClearOk
    \/ OnceClearFail
    \/ OnceWriteOk
    \/ OnceWriteQuota
    \/ OnceWriteFail
    \/ OnceReadOk
    \/ OnceReadFail
    \/ RbWaitDone

NextEngine ==
    \/ \E a \in AdapterNames, S \in CallerSuites : CallRunBenchmark(a, S)
    \/ EngineStep
    \/ RbReturnDirect
    \/ RbRejectDirect
    \/ CallerDone

SpecEngine == Init /\ [][NextEngine]_vars

-----------------------------------------------------------------------------
(* runAllBenchmarks and purgeAll *)

\* Mutant: the button is not disabled while a run is in progress.
RunAllBenchmarks_Reentrant ==
    /\ isRunning' = TRUE
    /\ results' = << >>
    /\ allResults' = << >>
    /\ si' = 1 /\ ai' = 1
    /\ caller' = "runAllBenchmarks"
    /\ pc' = "all_loop"
    /\ purgeLog' = << >>
    /\ failedPairs' = {}
    /\ UNCHANGED <<webVars, rbArgs, rbResults, pi, rbLocals, onceWrite, inflight, thrown, store,
                   purgeIdx, returned, opLog, trialLog, faulted>>

\* The "Run All Benchmarks" button (disabled while isRunning) is clicked:
\* setIsRunning(true); setResults([]); allResults = [].
RunAllBenchmarks ==
    /\ ~isRunning
    /\ isRunning' = TRUE
    /\ results' = << >>
    /\ allResults' = << >>
    /\ si' = 1 /\ ai' = 1
    /\ caller' = "runAllBenchmarks"
    /\ pc' = "all_loop"
    /\ purgeLog' = << >>
    /\ failedPairs' = {}
    /\ UNCHANGED <<webVars, rbArgs, rbResults, pi, rbLocals, onceWrite, inflight, thrown, store,
                   purgeIdx, returned, opLog, trialLog, faulted>>

\* for (const suite of suites) for (const adapter of adapters): the next pair
NextPair ==
    IF ai < Len(adapters)
    THEN si' = si /\ ai' = ai + 1
    ELSE si' = si + 1 /\ ai' = 1

\* try { const suiteResults = await runBenchmark(adapter, suite); ...
AllCallBenchmark ==
    /\ pc = "all_loop" /\ si <= Len(suites)
    /\ rbAdapter' = adapters[ai] /\ rbSuite' = suites[si]
    /\ rbResults' = << >> /\ pi' = 1
    /\ faulted' = FALSE
    /\ thrown' = NoThrow
    /\ pc' = "rb_loop"
    /\ UNCHANGED <<webVars, caller, orchVars, rbLocals, onceWrite, inflight, store, returned, opLog,
                   trialLog, failedPairs>>

\* Mutant: the pair's results are put in front of the accumulated ones.
RbReturnAll_Prepend ==
    /\ pc = "rb_loop" /\ pi > Len(rbSuite.payloads) /\ caller = "runAllBenchmarks"
    /\ allResults' = rbResults \o allResults
    /\ results' = rbResults \o allResults
    /\ NextPair
    /\ pc' = "all_loop"
    /\ LocalsGone
    /\ thrown' = NoThrow /\ faulted' = FALSE
    /\ UNCHANGED <<webVars, caller, isRunning, purgeIdx, purgeLog, rbArgs, inflight, store,
                   returned, failedPairs>>

\* ... allResults.push(...suiteResults); setResults([...allResults]); }
RbReturnAll ==
    /\ pc = "rb_loop" /\ pi > Len(rbSuite.payloads) /\ caller = "runAllBenchmarks"
    /\ allResults' = allResults \o rbResults
    /\ results' = allResults \o rbResults
    /\ NextPair
    /\ pc' = "all_loop"
    /\ LocalsGone
    /\ thrown' = NoThrow /\ faulted' = FALSE
    /\ UNCHANGED <<webVars, caller, isRunning, purgeIdx, purgeLog, rbArgs, inflight, store,
                   returned, failedPairs>>

\* Mutant: the failure of runBenchmark leaves runAllBenchmarks too.
AllCatch_Rethrow ==
    /\ pc = "rb_threw" /\ caller = "runAllBenchmarks"
    /\ pc' = "idle"
    /\ thrown' = NoThrow /\ faulted' = FALSE
    /\ UNCHANGED <<webVars, caller, orchVars, rbArgs,
                   rbResults, pi, rbLocals, onceWrite, inflight, store, returned,
                   opLog, trialLog, failedPairs>>

\* Mutant: after a failure of runBenchmark the same pair is tried again.
AllCatch_Retry ==
    /\ pc = "rb_threw" /\ caller = "runAllBenchmarks"
    /\ pc' = "all_loop"
    /\ thrown' = NoThrow /\ faulted' = FALSE
    /\ UNCHANGED <<webVars, caller, orchVars, rbArgs,
                   rbResults, pi, rbLocals, onceWrite, inflight, store, returned,
                   opLog, trialLog, failedPairs>>

\* catch (e) { console.error(`Failed suite ...`, e); }
AllCatch ==
    /\ pc = "rb_threw" /\ caller = "runAllBenchmarks"
    /\ NextPair
    /\ pc' = "all_loop"
    /\ thrown' = NoThrow /\ faulted' = FALSE
    /\ UNCHANGED <<webVars, caller, isRunning, results, allResults, purgeIdx, purgeLog, rbArgs,
                   rbResults, pi, rbLocals, onceWrite, inflight, store, returned,
                   opLog, trialLog, failedPairs>>

\* Mutant: setIsRunning(false) is done before purgeAll.
AllStartPurge_FlagEarly ==
    /\ pc = "all_loop" /\ si > Len(suites)
    /\ purgeIdx' = 1
    /\ pc' = "purge_loop"
    /\ isRunning' = FALSE
    /\ UNCHANGED <<webVars, caller, results, allResults, si, ai, purgeLog, rbArgs,
                   rbResults, pi, rbLocals, onceWrite, inflight, thrown, store, returned,
                   histVars>>

\* await purgeAll(adapters), entered after the last pair
AllStartPurge ==
    /\ pc = "all_loop" /\ si > Len(suites)
    /\ purgeIdx' = 1
    /\ pc' = "purge_loop"
    /\ UNCHANGED <<webVars, caller, isRunning, results, allResults, si, ai, purgeLog, rbArgs,
                   rbResults, pi, rbLocals, onceWrite, inflight, thrown, store, returned,
                   histVars>>

\* for (const adapter of adapters) { try { await adapter.clear(); ...
PurgeStartClear ==
    /\ pc = "purge_loop" /\ purgeIdx <= Len(adapters)
    /\ inflight' = Append(inflight, Op(adapters[purgeIdx], "clear"))
    /\ pc' = "await_purge"
    /\ UNCHANGED <<webVars, caller, orchVars, rbArgs, rbResults, pi, rbLocals, onceWrite, thrown,
                   store, returned, histVars>>

PurgeLogged(ok) == Append(purgeLog, [adapter |-> adapters[purgeIdx], ok |-> ok])

PurgeClearOk ==
    /\ pc = "await_purge"
    /\ store' = [store EXCEPT ![adapters[purgeIdx]] = NoEntries]
    /\ inflight' = Settle(inflight, Op(adapters[purgeIdx], "clear"))
    /\ purgeLog' = PurgeLogged(TRUE)
    /\ purgeIdx' = purgeIdx + 1
    /\ pc' = "purge_loop"
    /\ UNCHANGED <<webVars, caller, isRunning, results, allResults, si, ai, rbArgs, rbResults, pi,
                   rbLocals, onceWrite, thrown, returned, histVars>>

\* Mutant: a failed clear() ends the purge loop.
PurgeCatch_Abort ==
    /\ purgeLog' = PurgeLogged(FALSE)
    /\ purgeIdx' = Len(adapters) + 1
    /\ pc' = "purge_loop"

\* ... } catch (e) { console.error(`Failed to clear ${adapter.name}`, e); } }
\* whatever e is: it is only logged.
PurgeCatch ==
    /\ purgeLog' = PurgeLogged(FALSE)
    /\ purgeIdx' = purgeIdx + 1
    /\ pc' = "purge_loop"

PurgeClearFail ==
    /\ pc = "await_purge"
    /\ inflight' = Settle(inflight, Op(adapters[purgeIdx], "clear"))
    /\ PurgeCatch
    /\ UNCHANGED <<webVars, caller, isRunning, results, allResults, si, ai, rbArgs, rbResults, pi,
                   rbLocals, onceWrite, thrown, store, returned, histVars>>

\* purgeAll has returned: setIsRunning(false)
AllFinish ==
    /\ pc = "purge_loop" /\ purgeIdx > Len(adapters)
    /\ isRunning' = FALSE
    /\ pc' = "idle"
    /\ UNCHANGED <<webVars, caller, results, allResults, si, ai, purgeIdx, purgeLog, rbArgs,
                   rbResults, pi, rbLocals, onceWrite, inflight, thrown, store, returned,
                   histVars>>

Next ==
    \/ RunAllBenchmarks
    \/ AllCallBenchmark
    \/ EngineStep
    \/ RbReturnAll
    \/ AllCatch
    \/ AllStartPurge
    \/ PurgeStartClear
    \/ PurgeClearOk
    \/ PurgeClearFail
    \/ AllFinish

Spec == Init /\ [][Next]_vars

\* The steps of a run that has been started: every awaited operation settles
\* and the continuation that waits for it runs.
RunStep ==
    \/ AllCallBenchmark
    \/ EngineStep
    \/ RbReturnAll
    \/ AllCatch
    \/ AllStartPurge
    \/ PurgeStartClear
    \/ PurgeClearOk
    \/ PurgeClearFail
    \/ AllFinish

SpecLive == Spec /\ WF_vars(RunStep)

\* An adapter operation that never settles: the continuation that awaits it
\* never runs again (there is no timeout and no cancellation).
OpHangs ==
    /\ pc \in {"await_clear", "await_write", "await_read", "await_purge"}
    /\ pc' = IF pc = "await_purge" THEN "hung_purge" ELSE "hung"
    /\ UNCHANGED <<webVars, caller, orchVars, rbArgs, rbResults, pi, rbLocals, onceWrite,
                   inflight, thrown, store, returned, histVars>>

NextHang == Next \/ OpHangs

\* Runs in which an operation may never settle; every other operation settles.
SpecHang == Init /\ [][NextHang]_vars /\ WF_vars(RunStep)

-----------------------------------------------------------------------------
(* The adapters' methods called one after the other, outside the engine *)

\* Two adapters of the registry, in a browser with or without OPFS.
InitStore ==
    /\ EngineAtRest([a \in AdapterNames |-> NoEntries])
    /\ active \in { {a, b} : a, b \in AdapterSet } \ { {a} : a \in AdapterSet }
    /\ \E supported \in (IF "OPFS" \in active THEN BOOLEAN ELSE {TRUE}) :
           web = EmptyWeb(supported)
    /\ last = NoCall
    /\ ref = [a \in AdapterSet |-> NoEntries]

RevsWithin(w) == \A id \in DOMAIN w.pouch : w.pouch[id].rev <= MaxRev
Held(a) == DOMAIN ref[a]

WriteCall(a, k, v) ==
    LET out == AdapterWrite(a, web, k, v)
    IN  /\ RevsWithin(out.web)
        /\ web' = out.web
        /\ last' = Call(a, "write", k, v, out, Held(a))
        /\ ref' = IF out.ok THEN [ref EXCEPT ![a] = Put(@, k, v)] ELSE ref
        /\ UNCHANGED <<active, engineVars>>

ReadCall(a, k) ==
    LET out == AdapterRead(a, web, k)
    IN  /\ web' = out.web
        /\ last' = Call(a, "read", k, << >>, out, Held(a))
        /\ UNCHANGED <<ref, active, engineVars>>

DeleteCall(a, k) ==
    LET out == AdapterDelete(a, web, k)
    IN  /\ RevsWithin(out.web)
        /\ web' = out.web
        /\ last' = Call(a, "delete", k, << >>, out, Held(a))
        /\ ref' = IF out.ok THEN [ref EXCEPT ![a] = Without(@, k)] ELSE ref
        /\ UNCHANGED <<active, engineVars>>

ClearCall(a) ==
    LET out == AdapterClear(a, web)
    IN  /\ RevsWithin(out.web)
        /\ web' = out.web
        /\ last' = Call(a, "clear", << >>, << >>, out, Held(a))
        /\ ref' = IF out.ok THEN [ref EXCEPT ![a] = NoEntries] ELSE ref
        /\ UNCHANGED <<active, engineVars>>

NextStore ==
    \/ \E a \in active, k \in Keys, v \in Values : WriteCall(a, k, v)
    \/ \E a \in active, k \in Keys : ReadCall(a, k)
    \/ \E a \in active, k \in Keys : DeleteCall(a, k)
    \/ \E a \in active : ClearCall(a)

SpecStore == InitStore /\ [][NextStore]_vars

-----------------------------------------------------------------------------
(* Properties of the measurement engine and the orchestrator *)

Settled == returned.status \in {"fulfilled", "rejected"}

\* runAllBenchmarks has run to its end (setIsRunning(false) done).
RunFinished == pc = "idle" /\ caller = "runAllBenchmarks"

\* The result just recorded for the payload before position pi.
LastResult == rbResults[pi - 1]
PayloadDone == pc = "rb_loop" /\ pi >= 2

RECURSIVE SumW(_)
SumW(log) == IF log = << >> THEN 0 ELSE Head(log).w + SumW(Tail(log))
RECURSIVE SumR(_)
SumR(log) == IF log = << >> THEN 0 ELSE Head(log).r + SumR(Tail(log))

MatchesPayloads(value, a, S) ==
    /\ Len(value) = Len(S.payloads)
    /\ \A i \in 1..Len(value) :
         /\ value[i].adapterName = a
         /\ value[i].suiteName = S.name
         /\ value[i].payloadSize = S.payloads[i].label

\* C1: every call runBenchmark(A, S), whatever its adapter's operations did,
\* settles by returning exactly |S.payloads| results, in payload order, each
\* naming A, S and its payload's label.
C1_OneResultPerPayload ==
    Settled => /\ returned.status = "fulfilled"
               /\ MatchesPayloads(returned.value, rbAdapter, rbSuite)

\* What the code does: a call that returns, returns one result per payload.
C1_ReturnedMatchesPayloads ==
    returned.status = "fulfilled" => MatchesPayloads(returned.value, rbAdapter, rbSuite)

ProducedResults ==
    { rbResults[i] : i \in 1..Len(rbResults) } \cup
    { returned.value[i] : i \in 1..Len(returned.value) }

ErrorShape(r) ==
    /\ Len(r.error) = 1 /\ r.error[1] # ""
    /\ r.writeTime = 0 /\ r.readTime = 0 /\ r.blockingTime = 0
TimedShape(r) ==
    /\ r.error = NoError
    /\ r.writeTime >= 0 /\ r.readTime >= 0

\* C2: every result runBenchmark produces either has error set, a non-empty
\* string, with writeTime = readTime = blockingTime = 0, or has no error and
\* writeTime >= 0 and readTime >= 0; never an error with a non-zero timing.
C2_ResultShape ==
    \A r \in ProducedResults :
        /\ ErrorShape(r) \/ TimedShape(r)
        /\ r.error # NoError => r.writeTime = 0 /\ r.readTime = 0

\* A call returned both shapes: a payload whose second trial failed after a
\* timed first one, and a payload measured with non-zero times.
C2_Witness ==
    /\ returned.status = "fulfilled"
    /\ \E i, j \in 1..Len(returned.value) :
         /\ ErrorShape(returned.value[i])
         /\ TimedShape(returned.value[j]) /\ returned.value[j].writeTime > 0

\* C3: whatever value an adapter operation throws or rejects with, with or
\* without a message, runBenchmark does not itself fail: the payload gets a
\* result whose error is the message, or the fallback when there is none, and
\* the loop goes on with the next payload.
C3_FailureBecomesErrorResult ==
    /\ pc # "rb_threw"
    /\ returned.status # "rejected"
    /\ (PayloadDone /\ thrown # NoThrow) =>
           LastResult.error =
               << IF thrown.hasMessage /\ thrown.message # ""
                  THEN thrown.message ELSE "Quota exceeded or unknown error" >>

\* What the code does for a thrown value that is not null or undefined.
C3_NonNullishRecorded ==
    (PayloadDone /\ thrown # NoThrow /\ ~thrown.nullish) =>
        LastResult.error =
            << IF thrown.hasMessage /\ thrown.message # ""
               THEN thrown.message ELSE "Quota exceeded or unknown error" >>

\* C4: without a failing trial, the number of trials of a payload is decided
\* by the first trial's write+read time t alone (3 if t < 10 ms, 2 if
\* 10 <= t < 50 ms, 1 if t >= 50 ms), and the reported writeTime and readTime
\* are the sums of the trials' durations divided by that number.
C4_AdaptiveRepetition ==
    (PayloadDone /\ LastResult.error = NoError) =>
        LET t == trialLog[1].w + trialLog[1].r
            n == Len(trialLog)
        IN  /\ t < Ms(10) => n = 3
            /\ (Ms(10) <= t /\ t < Ms(50)) => n = 2
            /\ t >= Ms(50) => n = 1
            /\ LastResult.writeTime * n = SumW(trialLog)
            /\ LastResult.readTime * n = SumR(trialLog)

\* Three trials were run after a first trial under 10 ms although the second
\* trial took 50 ms.
C4_Witness ==
    /\ PayloadDone /\ LastResult.error = NoError
    /\ Len(trialLog) = 3
    /\ trialLog[1].w + trialLog[1].r < Ms(10)
    /\ trialLog[2].w + trialLog[2].r >= Ms(50)
    /\ LastResult.writeTime * 3 = SumW(trialLog)

ErrorPairs(rs) ==
    { << rs[i].suiteName, rs[i].adapterName >> : i \in { j \in 1..Len(rs) : rs[j].error # NoError } }

\* C5: a run of runAllBenchmarks over n one-payload suites and m adapters in
\* which some pairs hit a backend failure ends with exactly n*m results,
\* exactly the failing pairs carrying error, and purgeAll invoked after the
\* last pair.
C5_FullRunWithFailures ==
    (RunFinished /\ failedPairs # {}) =>
        /\ Len(results) = Len(suites) * Len(adapters)
        /\ ErrorPairs(results) = failedPairs
        /\ Len(purgeLog) = Len(adapters)

\* C6: for an adapter whose operations fail only by a write above its
\* capacity, every payload within capacity gets a result without error,
\* whatever was benchmarked (and failed) before it, in this call or an earlier one.
C6_FailureDoesNotTaint ==
    (returned.status = "fulfilled" /\ ~faulted) =>
        /\ Len(returned.value) = Len(rbSuite.payloads)
        /\ \A i \in 1..Len(returned.value) :
             rbSuite.payloads[i].size <= Capacity(rbAdapter) =>
                 returned.value[i].error = NoError

\* localStorage measured the 4 MB payload without error right after its 8 MB
\* payload failed on quota.
C6_Witness ==
    /\ returned.status = "fulfilled" /\ ~faulted
    /\ rbAdapter = "localStorage"
    /\ Len(returned.value) = 2
    /\ rbSuite.payloads[1].size > Capacity(rbAdapter)
    /\ returned.value[1].error = << "QuotaExceededError" >>
    /\ rbSuite.payloads[2].size <= Capacity(rbAdapter)
    /\ returned.value[2].error = NoError

\* C7: purgeAll calls clear() once on every adapter, in list order, one at a
\* time; a failed clear() is logged and the loop goes on, so that when the run
\* ends every adapter has had its clear().
C7_PurgeClearsEveryAdapter ==
    /\ Len(purgeLog) <= Len(adapters)
    /\ \A i \in 1..Len(purgeLog) : purgeLog[i].adapter = adapters[i]
    /\ pc = "purge_loop" => purgeIdx = Len(purgeLog) + 1
    /\ pc = "await_purge" => inflight = << Op(adapters[Len(purgeLog) + 1], "clear") >>
    /\ RunFinished => Len(purgeLog) = Len(adapters)

\* The first adapter's clear() failed and the second adapter was still cleared.
C7_Witness ==
    /\ RunFinished
    /\ Len(purgeLog) = 2
    /\ ~purgeLog[1].ok /\ purgeLog[2].ok
    /\ store[adapters[2]] = NoEntries

-----------------------------------------------------------------------------
(* Properties of the storage adapters *)

\* What adapter a would read under key k now.
ReadsNow(a, k) == AdapterRead(a, web, k)
ReadsAbsent(a, k) == ReadsNow(a, k).ok /\ ReadsNow(a, k).ret = Absent
Cleared == last.op = "clear" /\ last.ok
Wrote == last.op = "write" /\ last.ok

\* C8: after write(k, v) succeeded for an engine key k ('bench_128 B') and a later
\* clear() on the same adapter succeeded, read(k) returns absent (null).
C8_ClearLaw ==
    Cleared => \A k \in last.held \cap EngineKeys : ReadsAbsent(last.adapter, k)

\* The clear law holds for every adapter but Cookies, and for Cookies on keys
\* that encodeURIComponent leaves as they are.
C8_ClearLawElsewhere ==
    Cleared => \A k \in last.held :
                   (last.adapter # "Cookies" \/ encodeURIComponent(k) = k)
                       => ReadsAbsent(last.adapter, k)

\* C9: no write, delete or clear on an adapter A changes what B.read(k) returns,
\* for any other registered adapter B and any key k.
C9_NamespaceIsolation ==
    [][\A b \in AdapterSet, k \in Keys :
           (last'.op \in {"write", "delete", "clear"} /\ b # last'.adapter)
               => AdapterRead(b, web', k).ret = AdapterRead(b, web, k).ret]_vars

\* Isolation holds for every pair of adapters other than localStorage and store.js.
C9_IsolationElsewhere ==
    [][\A b \in AdapterSet, k \in Keys :
           (/\ last'.op \in {"write", "delete", "clear"}
            /\ b # last'.adapter
            /\ {b, last'.adapter} # {"localStorage", "store.js"})
               => AdapterRead(b, web', k).ret = AdapterRead(b, web, k).ret]_vars

\* C10: right after a successful write(k, v), read(k) on the same adapter
\* returns exactly v.
C10_RoundTrip ==
    Wrote => /\ ReadsNow(last.adapter, last.key).ok
             /\ ReadsNow(last.adapter, last.key).ret = Some(last.value)

\* The round trip holds for every non-empty value, and for the empty string on
\* every adapter but IndexedDB and store.js.
C10_RoundTripElsewhere ==
    (Wrote /\ (last.value # << >> \/ last.adapter \notin {"IndexedDB", "store.js"}))
        => /\ ReadsNow(last.adapter, last.key).ok
           /\ ReadsNow(last.adapter, last.key).ret = Some(last.value)

\* A step that is a write of a value other than the one the key holds for the adapter.
Overwrites ==
    /\ last'.op = "write"
    /\ last'.key \in DOMAIN ref[last'.adapter]
    /\ ref[last'.adapter][last'.key] # last'.value
ReadsBackWritten ==
    /\ last'.ok
    /\ AdapterRead(last'.adapter, web', last'.key).ok
    /\ AdapterRead(last'.adapter, web', last'.key).ret = Some(last'.value)

\* C11: write(k, v2) of a key that holds v1 # v2 for the adapter succeeds, and a
\* following read(k) returns v2.
C11_Overwrite == [][Overwrites => ReadsBackWritten]_vars

\* Overwriting works for every non-empty v2, and for the empty string on every
\* adapter but IndexedDB and store.js.
C11_OverwriteElsewhere ==
    [][(Overwrites /\ (last'.value # << >> \/ last'.adapter \notin {"IndexedDB", "store.js"}))
           => ReadsBackWritten]_vars

\* A read of a key that the adapter does not hold: never written through it, or
\* deleted or cleared since.
ReadMissing == last.op = "read" /\ last.key \notin last.held

\* C12: read(k) of a key that was never written, or was deleted or cleared,
\* completes successfully with null.
C12_AbsentKey == ReadMissing => (last.ok /\ last.ret = Absent)

\* A read never fails, whatever the key.
C12_ReadNeverFails == last.op = "read" => last.ok

\* The read of a missing key returns null except where clear left a cookie behind
\* and where localStorage and store.js see each other's items.
C12_AbsentKeyElsewhere ==
    (/\ ReadMissing
     /\ ~(last.adapter = "Cookies" /\ encodeURIComponent(last.key) # last.key)
     /\ active # {"localStorage", "store.js"})
        => (last.ok /\ last.ret = Absent)

\* A step that is a delete of a key the adapter does not hold.
DeletesMissing == last'.op = "delete" /\ last'.key \notin DOMAIN ref[last'.adapter]
\* The step changed nothing of what its adapter reads.
ReadsUnchanged ==
    \A k \in Keys : AdapterRead(last'.adapter, web', k).ret = AdapterRead(last'.adapter, web, k).ret

\* C13: delete(k) of a key that is not present completes successfully and leaves
\* the adapter's store as it was.
C13_DeleteAbsent == [][DeletesMissing => (last'.ok /\ ReadsUnchanged)]_vars

\* It does for every adapter but OPFS, except where clear left a cookie behind and
\* where localStorage and store.js see each other's items.
C13_DeleteAbsentElsewhere ==
    [][(/\ DeletesMissing
        /\ last'.adapter # "OPFS"
        /\ ~(last'.adapter = "Cookies" /\ encodeURIComponent(last'.key) # last'.key)
        /\ active # {"localStorage", "store.js"})
           => (last'.ok /\ ReadsUnchanged)]_vars

-----------------------------------------------------------------------------
(* Properties of the run as a whole *)

\* The operation (or timer) the running continuation is waiting for, if any.
Awaited ==
    CASE pc \in {"await_clear", "await_write", "await_read"} -> << Op(rbAdapter, OpAt(pc)) >>
      [] pc = "await_wait"  -> << Op("", "wait") >>
      [] pc = "await_purge" -> << Op(adapters[purgeIdx], "clear") >>
      [] OTHER -> << >>

\* C14: at most one adapter operation is in flight, the one the run is waiting
\* for, so none is started before the previous one has completed; and while a
\* run is in progress, from its first step to the end of the purge, the button
\* that starts a run is disabled (isRunning), so no second run starts.
C14_OneOperationAtATime ==
    /\ Len(inflight) <= 1
    /\ inflight = Awaited
    /\ (pc # "idle" \/ inflight # << >>) => isRunning

\* The purge of the last adapter after every pair has produced results, with
\* exactly that clear() in flight.
C14_Witness ==
    /\ pc = "await_purge" /\ purgeIdx = Len(adapters)
    /\ inflight = << Op(adapters[Len(adapters)], "clear") >>
    /\ Len(results) >= Len(suites) * Len(adapters)

\* The place of a result's (suite, adapter) pair in suite-major order.
IndexOf(seq, x) == CHOOSE i \in 1..Len(seq) : seq[i] = x
SuiteNames == [i \in 1..Len(suites) |-> suites[i].name]
PairRank(s, a) == (s - 1) * Len(adapters) + a
RankOf(r) == PairRank(IndexOf(SuiteNames, r.suiteName), IndexOf(adapters, r.adapterName))

\* The published results are those of pairs already visited, in the order of
\* the visits, one at most per pair.
InVisitOrder(published, s, a) ==
    /\ \A i \in 1..Len(published) :
         /\ published[i].suiteName \in { suites[j].name : j \in 1..Len(suites) }
         /\ published[i].adapterName \in AdapterNames
         /\ RankOf(published[i]) < PairRank(s, a)
    /\ \A i, j \in 1..Len(published) : i < j => RankOf(published[i]) < RankOf(published[j])

\* The step publishes nothing, or starts a run with an empty sequence, or
\* appends the results of the pair (si, ai) to what was published.
PublishesByAppending ==
    \/ results' = results
    \/ results' = << >> /\ ~isRunning /\ isRunning'
    \/ /\ Len(results') > Len(results)
       /\ SubSeq(results', 1, Len(results)) = results
       /\ \A i \in (Len(results) + 1)..Len(results') :
            /\ results'[i].suiteName = suites[si].name
            /\ results'[i].adapterName = adapters[ai]
       /\ PairRank(si', ai') = PairRank(si, ai) + 1

\* C15: pairs are visited in suite-major order; the published sequence starts
\* empty with each run and only grows by appending the results of the pair just
\* completed, so it holds at most one result per (suiteName, adapterName).
C15_SuiteMajorAppendOnly ==
    [][/\ PublishesByAppending
       /\ InVisitOrder(results', si', ai')
       /\ (pc = "all_loop" /\ pc' = "rb_loop")
              => (rbAdapter' = adapters[ai] /\ rbSuite' = suites[si])
       /\ (pc' = "all_loop" /\ pc # "idle") => PairRank(si', ai') = PairRank(si, ai) + 1]_vars

\* Three pairs have been published, the last pair is next.
C15_Witness ==
    /\ pc = "all_loop" /\ si = Len(suites) /\ ai = Len(adapters)
    /\ Len(results) = PairRank(si, ai) - 1

\* runBenchmark has rejected and runAllBenchmarks' catch is about to run.
PairRejected == pc = "rb_threw" /\ caller = "runAllBenchmarks"

\* C16: when runBenchmark fails for a pair, runAllBenchmarks' catch adds no
\* result, leaves the accumulated and the published results as they were and
\* goes on with the next pair; the run then reaches purgeAll.
C16_PairFailureIsSkipped ==
    /\ [][PairRejected => /\ allResults' = allResults /\ results' = results
                          /\ pc' = "all_loop" /\ isRunning'
                          /\ PairRank(si', ai') = PairRank(si, ai) + 1]_vars
    /\ (PairRejected ~> pc = "purge_loop")

\* The purge has been reached by a run that has results, and a pair that failed
\* has none.
C16_Witness ==
    /\ pc = "purge_loop" /\ caller = "runAllBenchmarks" /\ Len(results) >= 1
    /\ \E p \in failedPairs :
         \A i \in 1..Len(results) : << results[i].suiteName, results[i].adapterName >> # p

\* Every (suite, adapter) pair of the run has been attempted: it has results or
\* it hit a failure.
EveryPairAttempted ==
    \A s \in 1..Len(suites), a \in 1..Len(adapters) :
        \/ << suites[s].name, adapters[a] >> \in failedPairs
        \/ \E i \in 1..Len(allResults) :
               allResults[i].suiteName = suites[s].name /\ allResults[i].adapterName = adapters[a]

\* purgeAll has attempted clear() on every adapter.
EveryAdapterPurged ==
    /\ Len(purgeLog) = Len(adapters)
    /\ \A i \in 1..Len(adapters) : purgeLog[i].adapter = adapters[i]

\* C17: isRunning is true before the first adapter operation of a run starts and
\* for as long as the run is under way; it turns false only once every pair has
\* been attempted and purgeAll has attempted clear() on every adapter.
C17_RunningFlag ==
    [][/\ (inflight' # << >> \/ pc' # "idle")
              => \/ isRunning /\ isRunning'
                 \/ pc = "idle" /\ isRunning' /\ inflight' = << >>
       /\ (isRunning /\ ~isRunning')
              => (si > Len(suites) /\ EveryPairAttempted /\ EveryAdapterPurged /\ inflight = << >>)]_vars

\* A run has ended: the flag is false again, with results published and every
\* adapter purged.
C17_Witness ==
    /\ ~isRunning /\ caller = "runAllBenchmarks" /\ pc = "idle"
    /\ Len(results) >= 1 /\ EveryAdapterPurged /\ failedPairs # {}

\* The step records a result without error for the payload at pi.
PushesMeasured ==
    /\ pc = "await_read" /\ pc' = "rb_loop"
    /\ Len(rbResults') = Len(rbResults) + 1
    /\ rbResults'[Len(rbResults')].error = NoError

\* The p-th operation of a payload measured over several trials: clear, write,
\* read, then the pause, and again.
ExpectedOp(p, key, data) ==
    CASE p % 4 = 1 -> [op |-> "clear", key |-> << >>, arg |-> 0]
      [] p % 4 = 2 -> [op |-> "write", key |-> key, arg |-> data]
      [] p % 4 = 3 -> [op |-> "read", key |-> key, arg |-> 0]
      [] p % 4 = 0 -> [op |-> "wait", key |-> << >>, arg |-> PauseMs]
Issued(e) == [op |-> e.op, key |-> e.key, arg |-> e.arg]

\* C18: when a payload has been measured without failure over n trials, the
\* operations issued for it are clear, write(key, data), read(key), n times over
\* with the key bench_<label>, with one 50 ms pause between two trials and none
\* before the first or after the last; each trial's write time is the time its
\* write took, the clear left out; and no delete is ever issued.
C18_TrialOperations ==
    [][PushesMeasured =>
         LET n == Len(trialLog')
         IN  /\ n = runs' /\ n >= 1
             /\ Len(opLog) = 4 * n - 1
             /\ \A p \in 1..Len(opLog) :
                  Issued(opLog[p]) = ExpectedOp(p, BenchKey(CurPayload.label),
                                                generatePayload(CurPayload.size))
             /\ \A t \in 1..n :
                  /\ opLog[4 * t - 3].took \in { Ms(c) : c \in ClearDurations }
                  /\ trialLog'[t].w = opLog[4 * t - 2].took
             /\ \A i \in 1..Len(inflight) : inflight[i].op \in {"clear", "write", "read", "wait"}]_vars

\* A payload measured over three trials.
C18_Witness ==
    /\ PayloadDone /\ LastResult.error = NoError
    /\ Len(trialLog) = 3
    /\ trialLog[1].w # trialLog[2].w

\* An operation of a repeat trial (the first trial of the payload has returned)
\* fails.
RepeatTrialFails ==
    /\ pc \in {"await_clear", "await_write", "await_read"} /\ runs >= 1
    /\ pc' \in {"rb_loop", "rb_threw"}
    /\ ~PushesMeasured

\* The step ends the payload with one result that carries an error and no times,
\* and starts no operation.
RecordsErrorOnly ==
    /\ pc' = "rb_loop" /\ pi' = pi + 1
    /\ Len(rbResults') = Len(rbResults) + 1
    /\ SubSeq(rbResults', 1, Len(rbResults)) = rbResults
    /\ LET res == rbResults'[Len(rbResults')]
       IN  /\ res.payloadSize = CurPayload.label
           /\ res.error # NoError
           /\ res.writeTime = 0 /\ res.readTime = 0
    /\ inflight' = << >>

\* C19: when a repeat trial of a payload fails after earlier trials succeeded, no
\* further operation is issued for the payload and its one result carries the
\* error with writeTime = readTime = 0.
C19_RepeatFailureDiscardsTimes == [][RepeatTrialFails => RecordsErrorOnly]_vars

\* It is so whenever the value thrown is not null or undefined.
C19_RepeatFailureRecorded ==
    [][(RepeatTrialFails /\ ~thrown'.nullish) => RecordsErrorOnly]_vars

-----------------------------------------------------------------------------
(* Properties of the OPFS adapter without the capability *)

\* The last call was made on the OPFS adapter in a browser without
\* navigator.storage.getDirectory.
CalledWithoutOPFS == last.adapter = "OPFS" /\ last.op # "none" /\ ~web.opfsSupported
FailsNotSupported == ~last.ok /\ last.err = NotSupported /\ web.opfs = NoEntries
\* new Error('OPFS not supported'), as runBenchmark's catch receives it
NotSupportedError == ThrownValue(FALSE, TRUE, NotSupported)

\* C20: without the file-system capability every OPFSAdapter operation (write,
\* read, delete, clear) fails with 'OPFS not supported' and leaves the backend
\* alone, and the engine records that message as the result's error.
C20_NotSupportedFailsFast ==
    /\ CalledWithoutOPFS => FailsNotSupported
    /\ ErrorMessage(NotSupportedError) = NotSupported

\* write, delete and clear do fail so.
C20_NotSupportedButRead ==
    /\ (CalledWithoutOPFS /\ last.op # "read") => FailsNotSupported
    /\ ErrorMessage(NotSupportedError) = NotSupported

-----------------------------------------------------------------------------
(* Properties of the PouchDB adapter *)

PouchWrote == last.adapter = "PouchDB" /\ last.op = "write"

\* C21: in a sequence of write, read, delete and clear on the PouchDB adapter,
\* one after the other, write never fails with a revision conflict: it updates
\* the document at the revision it has just read, or creates it when the read
\* reports not found, as it does after a delete or a clear.
C21_PouchWriteNeverConflicts ==
    PouchWrote => /\ last.ok
                  /\ PouchLive(web, last.key)
                  /\ web.pouch[last.key].value = last.value
                  /\ last.key \in last.held => web.pouch[last.key].rev >= 2

\* A key written, removed by delete or clear, and written again.
C21_Witness ==
    /\ PouchWrote /\ last.ok
    /\ last.key \notin last.held
    /\ web.pouch[last.key].rev = 3
    /\ \E k \in Keys \ {last.key} : k \in DOMAIN web.pouch /\ web.pouch[k].rev = 2 /\ ~web.pouch[k].deleted

-----------------------------------------------------------------------------
(* The result of a measured payload, for every adapter of the registry *)

\* Mean write and read times, in sixths of a ms (0: below the clock's resolution)
MeanWriteTimes == { 0, Ms(1) \div 2, Ms(1), Ms(9), Ms(49) }
MeanReadTimes == { 0, Ms(1) \div 2, Ms(1) }

\* writeTime /= runs; readTime /= runs; blockingTime; results.push({...}) for
\* adapter a with mean times w and r.
PushMeasured(a, w, r) ==
    /\ pc = "idle"
    /\ rbAdapter' = a
    /\ rbResults' = << OkResult(a, rbSuite.name, rbSuite.payloads[1].label, w, r,
                                BlockingTime(a, w, r)) >>
    /\ UNCHANGED <<webVars, pc, caller, orchVars, rbSuite, pi, rbLocals, onceWrite, inflight,
                   thrown, store, returned, histVars>>

NextResult == \E a \in AdapterSet, w \in MeanWriteTimes, r \in MeanReadTimes : PushMeasured(a, w, r)

SpecResult == Init /\ [][NextResult]_vars

\* The adapters whose methods run their backend call to its end on the caller's
\* thread: localStorage, sessionStorage, document.cookie and store.js (which
\* keeps its items in localStorage) have no asynchronous backend call.
ExecutesSynchronously(a) == a \in {"localStorage", "sessionStorage", "Cookies", "store.js"}

\* C22: in every result without error, blockingTime is writeTime + readTime when
\* the adapter executes synchronously on the caller's thread and the placeholder
\* 0.5 ms when it is asynchronous.
C22_BlockingTime ==
    \A i \in 1..Len(rbResults) :
        rbResults[i].error = NoError =>
            rbResults[i].blockingTime =
                IF ExecutesSynchronously(rbResults[i].adapterName)
                THEN rbResults[i].writeTime + rbResults[i].readTime
                ELSE Ms(1) \div 2

\* What the code does: the full time for the three names of its list, the
\* placeholder for every other adapter, store.js included.
C22_BlockingByNameList ==
    \A i \in 1..Len(rbResults) :
        rbResults[i].error = NoError =>
            rbResults[i].blockingTime =
                IF rbResults[i].adapterName \in {"localStorage", "sessionStorage", "Cookies"}
                THEN rbResults[i].writeTime + rbResults[i].readTime
                ELSE Ms(1) \div 2

-----------------------------------------------------------------------------
(* Termination *)

Hung == pc \in {"hung", "hung_purge"}
RunComplete == RunFinished /\ ~isRunning /\ EveryPairAttempted /\ EveryAdapterPurged

C23_HungWitness == pc = "hung" /\ isRunning /\ inflight = << Op(adapters[Len(adapters)], "write") >> /\ si = Len(suites)

-----------------------------------------------------------------------------
(* runBenchmark driving the adapters of the registry *)

\* "a".repeat(size), as text
PayloadText(size) == [i \in 1..size |-> "a"]

\* The payloads a direct caller passes here: an empty one and a short one.
TrialSize == 2
TrialPayloads == { Payload("0 B", 0), Payload("n B", TrialSize) }
LabelText(label) == << SubSeq(label, 1, 1), " ", "B" >>

\* const key = `bench_${payload.label}`; const data = generatePayload(payload.size)
TrialKey == BenchKeyText(LabelText(CurPayload.label))
TrialData == PayloadText(CurPayload.size)

InitTrial ==
    /\ EngineAtRest([a \in AdapterNames |-> NoEntries])
    /\ \E supported \in BOOLEAN : web = EmptyWeb(supported)
    /\ active = {}
    /\ last = NoCall
    /\ ref = [a \in AdapterSet |-> NoEntries]

\* runBenchmark(a, S) for a suite S of one payload p: the loop enters its try
\* block and runOnce calls adapter.clear().  One call is followed, from a
\* browser that stores nothing.
TrialBegin(a, p) ==
    /\ pc = "idle" /\ caller = "none"
    /\ pc' = "t_clear"
    /\ caller' = "direct"
    /\ rbAdapter' = a
    /\ rbSuite' = [name |-> "direct", payloads |-> << p >>]
    /\ returned' = [status |-> "none", value |-> << >>]
    /\ LocalsGone
    /\ UNCHANGED <<webVars, orchVars, inflight, thrown, store, faulted, failedPairs>>

\* catch (e): the adapters throw Error objects, whose message is recorded.
TrialCatch(msg) ==
    /\ rbResults' = Append(rbResults, ErrorResult(rbAdapter, rbSuite.name, CurPayload.label,
                                                  ThrownValue(FALSE, TRUE, msg)))
    /\ pc' = "t_done"
    /\ writeTime' = 0 /\ readTime' = 0 /\ runs' = 0 /\ targetRuns' = 0
    /\ onceWrite' = 0

\* await adapter.clear() settles.
TrialClear ==
    /\ pc = "t_clear"
    /\ LET out == AdapterClear(rbAdapter, web)
       IN  /\ RevsWithin(out.web)
           /\ web' = out.web
           /\ last' = Call(rbAdapter, "clear", << >>, << >>, out, Held(rbAdapter))
           /\ ref' = IF out.ok THEN [ref EXCEPT ![rbAdapter] = NoEntries] ELSE ref
           /\ IF out.ok THEN pc' = "t_write" /\ UNCHANGED <<rbResults, rbLocals, onceWrite>>
              ELSE TrialCatch(out.err)
    /\ UNCHANGED <<active, caller, orchVars, rbArgs, pi, inflight, thrown, store, returned,
                   histVars>>

\* await adapter.write(key, data) settles after d ms.
TrialWrite ==
    /\ pc = "t_write"
    /\ LET out == AdapterWrite(rbAdapter, web, TrialKey, TrialData)
       IN  /\ RevsWithin(out.web)
           /\ web' = out.web
           /\ last' = Call(rbAdapter, "write", TrialKey, TrialData, out, Held(rbAdapter))
           /\ ref' = IF out.ok THEN [ref EXCEPT ![rbAdapter] = Put(@, TrialKey, TrialData)] ELSE ref
           /\ IF out.ok
              THEN /\ pc' = "t_read"
                   /\ \E d \in WriteDurations : onceWrite' = Ms(d)
                   /\ UNCHANGED <<rbResults, rbLocals>>
              ELSE TrialCatch(out.err)
    /\ UNCHANGED <<active, caller, orchVars, rbArgs, pi, inflight, thrown, store, returned,
                   histVars>>

\* The trial's times are added up; the last trial pushes the result.
TrialMeasured(r) ==
    LET w1 == IF runs = 0 THEN onceWrite ELSE writeTime + onceWrite
        r1 == IF runs = 0 THEN r ELSE readTime + r
        t1 == IF runs = 0 THEN TargetRuns(onceWrite + r) ELSE targetRuns
    IN  /\ runs' = runs + 1
        /\ targetRuns' = t1
        /\ UNCHANGED onceWrite
        /\ IF runs + 1 < t1
           THEN /\ writeTime' = w1 /\ readTime' = r1
                /\ pc' = "t_wait"
                /\ UNCHANGED rbResults
           ELSE /\ writeTime' = Mean(w1, runs + 1) /\ readTime' = Mean(r1, runs + 1)
                /\ rbResults' = Append(rbResults,
                       OkResult(rbAdapter, rbSuite.name, CurPayload.label,
                                Mean(w1, runs + 1), Mean(r1, runs + 1),
                                BlockingTime(rbAdapter, Mean(w1, runs + 1), Mean(r1, runs + 1))))
                /\ pc' = "t_done"

\* Mutant: the value read back is compared with the payload.
TrialRead_Verified ==
    /\ pc = "t_read"
    /\ LET out == AdapterRead(rbAdapter, web, TrialKey)
       IN  /\ web' = out.web
           /\ last' = Call(rbAdapter, "read", TrialKey, << >>, out, Held(rbAdapter))
           /\ IF out.ok /\ out.ret = Some(TrialData)
              THEN \E d \in ReadDurations : TrialMeasured(Ms(d))
              ELSE TrialCatch(IF out.ok THEN "read back another value" ELSE out.err)
    /\ UNCHANGED <<ref, active, caller, orchVars, rbArgs, pi, inflight, thrown, store, returned,
                   histVars>>

\* await adapter.read(key) settles after d ms; the value it resolves to is not
\* bound to anything.
TrialRead ==
    /\ pc = "t_read"
    /\ LET out == AdapterRead(rbAdapter, web, TrialKey)
       IN  /\ web' = out.web
           /\ last' = Call(rbAdapter, "read", TrialKey, << >>, out, Held(rbAdapter))
           /\ IF out.ok
              THEN \E d \in ReadDurations : TrialMeasured(Ms(d))
              ELSE TrialCatch(out.err)
    /\ UNCHANGED <<ref, active, caller, orchVars, rbArgs, pi, inflight, thrown, store, returned,
                   histVars>>

\* await wait(50) resolves; the next runOnce calls adapter.clear().
TrialWaitDone ==
    /\ pc = "t_wait"
    /\ pc' = "t_clear"
    /\ UNCHANGED <<webVars, caller, orchVars, rbArgs, rbResults, pi, rbLocals, onceWrite,
                   inflight, thrown, store, returned, histVars>>

\* return results
TrialReturn ==
    /\ pc = "t_done"
    /\ pc' = "idle"
    /\ returned' = [status |-> "fulfilled", value |-> rbResults]
    /\ LocalsGone
    /\ UNCHANGED <<webVars, caller, orchVars, rbArgs, inflight, thrown, store, faulted,
                   failedPairs>>

NextTrial ==
    \/ \E a \in AdapterSet, p \in TrialPayloads : TrialBegin(a, p)
    \/ TrialClear
    \/ TrialWrite
    \/ TrialRead
    \/ TrialWaitDone
    \/ TrialReturn

SpecTrial == InitTrial /\ [][NextTrial]_vars

\* The payload's try block is over.
TrialOver == pc = "t_done"
\* clear, write and read have completed without failure in every trial: the
\* call made last is a read that returned.
AllCompleted == last.op = "read" /\ last.ok

\* C24: runBenchmark records a result without error for a payload exactly when
\* clear, write and read all completed without failure, whatever the read
\* returned; the times recorded are those measured.
C24_ReadValueIgnored ==
    TrialOver =>
        /\ Len(rbResults) = 1
        /\ AllCompleted <=> rbResults[1].error = NoError
        /\ AllCompleted => /\ rbResults[1].adapterName = rbAdapter
                           /\ rbResults[1].writeTime = writeTime
                           /\ rbResults[1].readTime = readTime
                           /\ runs = targetRuns

\* A result without error although every read of the three trials returned
\* absent: the payload written was not read back.
C24_Witness ==
    /\ TrialOver /\ rbResults[1].error = NoError
    /\ runs = FastRuns
    /\ last.op = "read" /\ last.ok /\ last.ret = Absent
    /\ last.ret # Some(TrialData)

\* With a payload that is not empty every read of a trial returns what was written.
C24_CatalogPayloadReadBack ==
    (TrialOver /\ AllCompleted /\ CurPayload.size > 0) => last.ret = Some(TrialData)

-----------------------------------------------------------------------------
(* The chart data *)

\* A chart point: null, or a number of hundredths of a millisecond.
NullPoint == [isNull |-> TRUE, y |-> 0]
Point(y) == [isNull |-> FALSE, y |-> y]

\* parseFloat(x.toFixed(2)), in hundredths: the nearest hundredth (a sixth of a
\* millisecond is never half-way between two hundredths).
ToFixed2(t) == (100 * t + Scale \div 2) \div Scale
\* 0.01, in hundredths
MinPoint == 1
Max(x, y) == IF x >= y THEN x ELSE y

NoResult == [found |-> FALSE, res |-> OkResult("", "", "", 0, 0, 0)]
\* results.find(r => r.suiteName === suite.name && r.adapterName === adapter.name)
Find(rs, sname, aname) ==
    LET hits == { i \in 1..Len(rs) : rs[i].suiteName = sname /\ rs[i].adapterName = aname }
    IN  IF hits = {} THEN NoResult
        ELSE [found |-> TRUE, res |-> rs[CHOOSE i \in hits : \A j \in hits : i <= j]]

\* res?.error: a result was found and its error is a string that is not empty
Truthy(error) == error # NoError /\ error[1] # ""
FailsIn(rs, suite) ==
    { a \in AdapterNames : LET f == Find(rs, suite.name, a) IN f.found /\ Truthy(f.res.error) }

\* Mutant: the set of failed adapters starts empty for every suite.
DataPoint_PerSuite(rs, suite, failedAdapters) ==
    [name   |-> suite.payloads[1].label,
     points |-> [a \in AdapterNames |->
                   LET f == Find(rs, suite.name, a)
                   IN  IF a \in FailsIn(rs, suite) THEN NullPoint
                       ELSE IF f.found
                            THEN Point(Max(ToFixed2(f.res.writeTime + f.res.readTime), MinPoint))
                            ELSE NullPoint]]

\* The body of suites.map: failedAdapters holds the adapters of the earlier
\* suites and, by the time an adapter's point is set, that adapter if it fails
\* in this suite.
DataPoint(rs, suite, failedAdapters) ==
    [name   |-> suite.payloads[1].label,
     points |-> [a \in AdapterNames |->
                   LET f == Find(rs, suite.name, a)
                   IN  IF a \in failedAdapters \cup FailsIn(rs, suite) THEN NullPoint
                       ELSE IF f.found
                            THEN Point(Max(ToFixed2(f.res.writeTime + f.res.readTime), MinPoint))
                            ELSE NullPoint]]

\* suites.map(suite => ...), with failedAdapters carried from suite to suite
RECURSIVE ChartFrom(_, _, _, _)
ChartFrom(ss, rs, s, failedAdapters) ==
    IF s > Len(ss) THEN << >>
    ELSE << DataPoint(rs, ss[s], failedAdapters) >>
         \o ChartFrom(ss, rs, s + 1, failedAdapters \cup FailsIn(rs, ss[s]))

ChartDataOf(ss, rs) == ChartFrom(ss, rs, 1, {})

\* The suites charted here and the times of their results.
ChartSuites == << Catalog[6], Catalog[7], Catalog[8] >>
ChartTimes == { 0, 1, 50 }
ChartRank(r) ==
    (CHOOSE s \in 1..Len(ChartSuites) : ChartSuites[s].name = r.suiteName) * Len(adapters)
        + IndexOf(adapters, r.adapterName)

chartData == ChartDataOf(ChartSuites, results)

\* setResults: a run's results so far, one at most per pair and in the order of
\* the visits; r is the result of a later pair.
SetResults(r) ==
    /\ pc = "idle"
    /\ \A i \in 1..Len(results) : ChartRank(results[i]) < ChartRank(r)
    /\ results' = Append(results, r)
    /\ UNCHANGED <<webVars, pc, caller, isRunning, allResults, si, ai, purgeIdx, purgeLog, rbArgs,
                   rbResults, pi, rbLocals, onceWrite, inflight, thrown, store, returned, histVars>>

ChartResults ==
    { OkResult(adapters[a], ChartSuites[s].name, ChartSuites[s].payloads[1].label, w, 0,
               BlockingTime(adapters[a], w, 0)) :
          s \in 1..Len(ChartSuites), a \in 1..Len(adapters), w \in ChartTimes }
    \cup
    { ErrorResult(adapters[a], ChartSuites[s].name, ChartSuites[s].payloads[1].label, QuotaError) :
          s \in 1..Len(ChartSuites), a \in 1..Len(adapters) }

NextChart == \E r \in ChartResults : SetResults(r)
SpecChart == Init /\ [][NextChart]_vars

\* The result of adapter a for the suite at position s, when there is one.
HasResult(ss, rs, s, a) ==
    \E i \in 1..Len(rs) : rs[i].suiteName = ss[s].name /\ rs[i].adapterName = a
ResultOf(ss, rs, s, a) ==
    rs[CHOOSE i \in 1..Len(rs) : rs[i].suiteName = ss[s].name /\ rs[i].adapterName = a]
HasErrorResult(ss, rs, s, a) ==
    \E i \in 1..Len(rs) : /\ rs[i].suiteName = ss[s].name /\ rs[i].adapterName = a
                          /\ rs[i].error # NoError

ChartAsClaimed(ss, rs) ==
    LET chart == ChartDataOf(ss, rs)
    IN  /\ Len(chart) = Len(ss)
        /\ \A s \in 1..Len(ss), a \in AdapterNames :
             LET pt == chart[s].points[a]
             IN  IF \E s2 \in 1..s : HasErrorResult(ss, rs, s2, a) THEN pt = NullPoint
                 ELSE IF HasResult(ss, rs, s, a)
                      THEN LET res == ResultOf(ss, rs, s, a)
                           IN  pt = Point(Max(ToFixed2(res.writeTime + res.readTime), MinPoint))
                      ELSE pt = NullPoint

\* C25: in the chart data an adapter's point is null for the suite in which it
\* has a result with error and for every later suite of the catalog, whatever
\* the later results are; an adapter without error so far has
\* max(writeTime + readTime rounded to 2 decimals, 0.01) where it has a result
\* and null where it has none.
C25_ChartData == ChartAsClaimed(ChartSuites, results)

\* An adapter failed in the first suite, has no result in the second and one
\* without error in the third, where its point is null; the other adapter's
\* points are the floor 0.01, 0.17 and 8.33.
C25_Witness ==
    /\ HasErrorResult(ChartSuites, results, 1, adapters[1])
    /\ ~HasResult(ChartSuites, results, 2, adapters[1])
    /\ HasResult(ChartSuites, results, 3, adapters[1])
    /\ ~HasErrorResult(ChartSuites, results, 3, adapters[1])
    /\ chartData[3].points[adapters[1]] = NullPoint
    /\ chartData[1].points[adapters[2]] = Point(MinPoint)
    /\ chartData[2].points[adapters[2]] = Point(17)
    /\ chartData[3].points[adapters[2]] = Point(833)

\* The same for the results a run of the engine publishes.
C25_ChartOfRun == ChartAsClaimed(suites, results)

\* A run published a result with error for an adapter in its first suite and a
\* result without error for it in the second.
C25_RunWitness ==
    \E a \in AdapterNames :
        /\ HasErrorResult(suites, results, 1, a)
        /\ HasResult(suites, results, 2, a) /\ ~HasErrorResult(suites, results, 2, a)
        /\ ChartDataOf(suites, results)[2].points[a] = NullPoint

====
